---- MODULE Spec2Model ----
(***************************************************************************)
(* Wishlist savings planner (streamlit_app.py).                            *)
(*                                                                         *)
(* The script is re-run from top to bottom on every page load and every    *)
(* widget event.  A run loads the whole document from planner_data.json,   *)
(* executes at most one handler (the one whose button was pressed), and    *)
(* the handler saves the whole document back.  The state of the program is *)
(* the file, the figures the last run rendered, and, for concurrent        *)
(* browser sessions, each session's position and private copy of the       *)
(* document.                                                               *)
(***************************************************************************)
EXTENDS Integers, Sequences, FiniteSets, TLC

VARIABLES
    file,             \* DATA_FILE: <<document>>, or NoFile when it does not exist
    usable,           \* script global `usable` of the last run (line 109)
    alloc,            \* script global `alloc` of the last run (line 156)
    rem_after_alloc,  \* script global `rem_after_alloc` of the last run (line 156)
    last,             \* the handler the last run executed
    session           \* per browser session: position, private `data`, runs made

vars == <<file, usable, alloc, rem_after_alloc, last, session>>

(***************************************************************************)
(* Bounds of the model.                                                    *)
(***************************************************************************)
MaxItems  == 2   \* wishlist length at which "add item" is no longer explored
MaxTxns   == 2   \* log length at which apply / deposit are no longer explored
MaxLen    == 3   \* longest wishlist of the allocation inputs
MaxNeed   == 2   \* largest target of the allocation inputs
MaxUsable == 3   \* largest budget of the allocation inputs
MaxField  == 2   \* largest profile field of the usable-cash inputs
MaxGoal   == 3   \* largest target / current of the monthly-need inputs
MaxPeriod == 3   \* largest deadline of the monthly-need inputs
MaxRuns   == 2   \* script runs per session in the two-session specification

(***************************************************************************)
(* Program constants and input domains.                                    *)
(***************************************************************************)
NoPriority == 999                \* x.get("priority", 999)
Priorities == {1, 2, 3, 4, 5}    \* st.selectbox("우선순위 (1:높음)", [1,2,3,4,5])
Incomes    == {0, 1, 2}          \* st.number_input("월 수입 (원)", min_value=0)
Commits    == {0}                \* the three commitments entered with it
Targets    == {3}                \* st.number_input("목표 금액 (원)", min_value=0)
Deadlines  == {1, 2}             \* st.number_input("목표 기간 (개월)", min_value=1)
Picked     == {1, 2}             \* the priorities picked among Priorities
Amounts    == {2}                \* st.number_input("금액 (원)", min_value=0)
Names      == {"a"}              \* st.text_input: the text is never inspected
Memos      == {""}               \* st.text_input("메모 (선택)")
Now        == {"ts"}             \* datetime.now().isoformat(): written, never read
NoFile     == <<>>               \* os.path.exists(DATA_FILE) is False
Sessions   == {1, 2}

(***************************************************************************)
(* Python helpers.                                                         *)
(***************************************************************************)
\* dict.get(key, default)
Get(d, key, default) == IF key \in DOMAIN d THEN d[key] ELSE default

\* max(0, x) / min(a, b) on integers
Max0(x) == IF x > 0 THEN x ELSE 0
Min(a, b) == IF a <= b THEN a ELSE b

\* int(x / m) for integers x and m > 0: true division, then truncation toward
\* zero (TLA+'s \div rounds toward minus infinity).  On amounts below 2^53
\* the float quotient truncates to the same integer as the exact one.
IntDiv(x, m) == IF x >= 0 THEN x \div m ELSE -((-x) \div m)

\* `v or 1`
OrOne(v) == IF v = 0 THEN 1 ELSE v

(***************************************************************************)
(* load_data / save_data / new_item_id                                     *)
(***************************************************************************)
DefaultData ==
    [profile |-> [income |-> 0, fixed_expenses |-> 0, saving_invest |-> 0,
                  emergency |-> 0, saving_pct |-> "None", invest_pct |-> "None",
                  emergency_pct |-> "None"],
     wishlist |-> <<>>,
     transactions |-> <<>>]

load_data(f) == IF f # NoFile THEN f[1] ELSE DefaultData

\* json.dump of the whole document over the previous content
save_data(data) == <<data>>

RECURSIVE MaxOf(_)
MaxOf(s) ==
    IF Len(s) = 1 THEN s[1]
    ELSE LET m == MaxOf(Tail(s)) IN IF s[1] >= m THEN s[1] ELSE m

\* variant: the largest id in use handed out again
new_item_id_reused(data) ==
    LET existing == [i \in 1..Len(data.wishlist) |-> Get(data.wishlist[i], "id", 0)]
    IN  IF existing # <<>> THEN MaxOf(existing) ELSE 1

new_item_id(data) ==
    LET existing == [i \in 1..Len(data.wishlist) |-> Get(data.wishlist[i], "id", 0)]
    IN  IF existing # <<>> THEN MaxOf(existing) + 1 ELSE 1

(***************************************************************************)
(* Core calculations                                                       *)
(***************************************************************************)
\* variant: the difference returned without the clamp
calculate_usable_unclamped(profile) ==
    profile.income - (profile.fixed_expenses + profile.saving_invest + profile.emergency)

calculate_usable(profile) ==
    LET income    == profile.income
        fixed     == profile.fixed_expenses
        saving    == profile.saving_invest
        emergency == profile.emergency
    IN  Max0(income - (fixed + saving + emergency))

\* variant: the quotient rounded up instead of truncated
monthly_need_rounded_up(item) ==
    LET months == OrOne(Get(item, "months", 1))
        gap    == item.target - Get(item, "current", 0)
    IN  Max0(IntDiv(gap + months - 1, months))

\* variant: the need taken from the target alone
monthly_need_ignoring_current(item) ==
    LET months == OrOne(Get(item, "months", 1))
    IN  Max0(IntDiv(item.target, months))

monthly_need_for_item(item) ==
    LET months == OrOne(Get(item, "months", 1))
    IN  Max0(IntDiv(item.target - Get(item, "current", 0), months))

\* variant: an insertion that puts an item before the items of equal priority
RECURSIVE InsertByPriorityUnstable(_, _)
InsertByPriorityUnstable(sorted, it) ==
    IF sorted = <<>> THEN <<it>>
    ELSE IF Get(sorted[Len(sorted)], "priority", 999) < Get(it, "priority", 999)
         THEN Append(sorted, it)
         ELSE Append(InsertByPriorityUnstable(SubSeq(sorted, 1, Len(sorted) - 1), it),
                     sorted[Len(sorted)])

\* list.sort / sorted(): stable, ascending by key.  Insertion of `it` behind
\* every element whose key is not larger keeps equal keys in input order.
PriorityKey(it) == Get(it, "priority", NoPriority)

RECURSIVE InsertByPriority(_, _)
InsertByPriority(sorted, it) ==
    IF sorted = <<>> THEN <<it>>
    ELSE IF PriorityKey(sorted[Len(sorted)]) <= PriorityKey(it)
         THEN Append(sorted, it)
         ELSE Append(InsertByPriority(SubSeq(sorted, 1, Len(sorted) - 1), it),
                     sorted[Len(sorted)])

RECURSIVE SortedByPriority(_)
SortedByPriority(wishlist) ==
    IF wishlist = <<>> THEN <<>>
    ELSE InsertByPriority(SortedByPriority(SubSeq(wishlist, 1, Len(wishlist) - 1)),
                          wishlist[Len(wishlist)])

\* one `alloc.append({...})` of the loop body
AllocRecord(it, assigned, need) ==
    [id |-> it.id, name |-> it.name, assigned |-> assigned, need |-> need]

\* variant: the loop without its break, recording the unfunded items too
RECURSIVE AllocLoopNoBreak(_, _, _, _)
AllocLoopNoBreak(sorted_items, i, acc, remaining) ==
    IF i > Len(sorted_items) THEN [alloc |-> acc, remaining |-> remaining]
    ELSE LET it       == sorted_items[i]
             need     == Max0(IntDiv(it.target - Get(it, "current", 0),
                                     OrOne(Get(it, "months", 1))))
             assigned == Min(need, remaining)
         IN  AllocLoopNoBreak(sorted_items, i + 1,
                              Append(acc, AllocRecord(it, assigned, need)),
                              remaining - assigned)

\* the for loop of allocate_to_wishlist from position i on, with its break
RECURSIVE AllocLoop(_, _, _, _)
AllocLoop(sorted_items, i, acc, remaining) ==
    IF i > Len(sorted_items) THEN [alloc |-> acc, remaining |-> remaining]
    ELSE LET it       == sorted_items[i]
             need     == monthly_need_for_item(it)
             assigned == Min(need, remaining)
             acc2     == Append(acc, AllocRecord(it, assigned, need))
             rem2     == remaining - assigned
         IN  IF rem2 <= 0 THEN [alloc |-> acc2, remaining |-> rem2]
             ELSE AllocLoop(sorted_items, i + 1, acc2, rem2)

allocate_to_wishlist(u, wishlist) ==
    AllocLoop(SortedByPriority(wishlist), 1, <<>>, u)

(***************************************************************************)
(* Handlers, as functions of the run's `data` and the form inputs          *)
(***************************************************************************)
\* "저장 (프로필)": profile.update({...}); data["profile"] = profile
SaveProfileData(data, income, fixed_expenses, saving_invest, emergency) ==
    [data EXCEPT !.profile =
        [@ EXCEPT !.income = income, !.fixed_expenses = fixed_expenses,
                  !.saving_invest = saving_invest, !.emergency = emergency]]

\* add_item form: data["wishlist"].append(item)
AddItemData(data, name, target, months, priority, now) ==
    LET item == [id |-> new_item_id(data), name |-> name, target |-> target,
                 months |-> months, current |-> 0, priority |-> priority,
                 created |-> now]
    IN  [data EXCEPT !.wishlist = Append(@, item)]

\* id_to_assigned = {a["id"]: a["assigned"] for a in alloc}: a later record of
\* the same id replaces an earlier one
RECURSIVE IdToAssigned(_, _)
IdToAssigned(al, id) ==
    IF al = <<>> THEN 0
    ELSE IF al[Len(al)].id = id THEN al[Len(al)].assigned
         ELSE IdToAssigned(SubSeq(al, 1, Len(al) - 1), id)

\* variant: the assigned amount stored as the balance instead of added to it
ApplyToItemOverwriting(it, al) ==
    LET add_amt == IdToAssigned(al, it.id)
    IN  IF add_amt > 0
        THEN [k \in DOMAIN it \cup {"current"} |->
                 IF k = "current" THEN add_amt ELSE it[k]]
        ELSE it

\* the loop over data["wishlist"] of the apply handler
ApplyToItem(it, al) ==
    LET add_amt == IdToAssigned(al, it.id)
    IN  IF add_amt > 0
        THEN [k \in DOMAIN it \cup {"current"} |->
                 IF k = "current" THEN Get(it, "current", 0) + add_amt ELSE it[k]]
        ELSE it

MonthlyAllocTxn(al, now) ==
    [ts |-> now, type |-> "monthly_alloc", detail |-> [alloc |-> al]]

\* "이번 달 할당 적용하기": add the assigned amounts, record the transaction
ApplyAllocationData(data, al, now) ==
    [data EXCEPT
        !.wishlist = [i \in 1..Len(@) |-> ApplyToItem(@[i], al)],
        !.transactions = Append(@, MonthlyAllocTxn(al, now))]

\* index of the first item whose id is target_id, 0 when the loop finds none
RECURSIVE FirstWithId(_, _, _)
FirstWithId(wishlist, target_id, i) ==
    IF i > Len(wishlist) THEN 0
    ELSE IF wishlist[i].id = target_id THEN i
         ELSE FirstWithId(wishlist, target_id, i + 1)

ManualDepositTxn(target_id, amount, memo, now) ==
    [ts |-> now, type |-> "manual_deposit", amount |-> amount,
     item_id |-> target_id, memo |-> memo]

\* variant: a deposit to an unknown id rejected instead of logged
ManualDepositValidated(data, target_id, amount, memo, now) ==
    LET hit == FirstWithId(data.wishlist, target_id, 1)
    IN  IF hit = 0 THEN data
        ELSE [data EXCEPT
                !.wishlist[hit].current = @ + amount,
                !.transactions =
                    Append(@, ManualDepositTxn(target_id, amount, memo, now))]

\* variant: the log rewritten with the newest entry first
ManualDepositTxnFirst(data, target_id, amount, memo, now) ==
    LET hit == FirstWithId(data.wishlist, target_id, 1)
    IN  [data EXCEPT
            !.wishlist = IF hit = 0 THEN @ ELSE [@ EXCEPT ![hit].current = @ + amount],
            !.transactions =
                <<ManualDepositTxn(target_id, amount, memo, now)>> \o @]

\* txn_form: deposit to the first item with the id (break), record the transaction
ManualDepositData(data, target_id, amount, memo, now) ==
    LET hit == FirstWithId(data.wishlist, target_id, 1)
        it  == data.wishlist[hit]
        paid == [k \in DOMAIN it \cup {"current"} |->
                    IF k = "current" THEN Get(it, "current", 0) + amount ELSE it[k]]
    IN  [data EXCEPT
            !.wishlist = IF hit = 0 THEN @ ELSE [@ EXCEPT ![hit] = paid],
            !.transactions =
                Append(@, ManualDepositTxn(target_id, amount, memo, now))]

\* choices = {f"{it['id']}: {it['name']}": it["id"] for it in data["wishlist"]}
\* the ids the selectbox can yield
Choices(data) == {data.wishlist[i].id : i \in 1..Len(data.wishlist)}

(***************************************************************************)
(* One script run of a single browser session: load (line 76), the handler *)
(* of the pressed button with its save, and the figures the run renders.   *)
(* `usable` is computed after the sidebar (line 109); `alloc` after the    *)
(* add-item form and before the apply and deposit handlers (line 156).     *)
(***************************************************************************)
NoSession == [pc |-> "idle", data |-> <<>>, runs |-> 0]

Init ==
    /\ file = NoFile
    /\ usable = 0
    /\ alloc = <<>>
    /\ rem_after_alloc = 0
    /\ last = "init"
    /\ session = [s \in Sessions |-> NoSession]

\* a widget event needs a rendered page
Rendered == last # "init"

\* lines 109 and 156 on the run's data
Render(profile, wishlist) ==
    LET u == calculate_usable(profile)
        r == allocate_to_wishlist(u, wishlist)
    IN  /\ usable' = u
        /\ alloc' = r.alloc
        /\ rem_after_alloc' = r.remaining

\* page load, or an event whose handler changes no data (the two
\* recommendation buttons only set locals of the run; export only downloads)
Rerun ==
    /\ LET data == load_data(file)
       IN  Render(data.profile, data.wishlist)
    /\ last' = "rerun"
    /\ UNCHANGED <<file, session>>

SaveProfile ==
    /\ Rendered
    /\ \E income \in Incomes, fixed_expenses \in Commits,
          saving_invest \in Commits, emergency \in Commits :
         LET data == SaveProfileData(load_data(file), income, fixed_expenses,
                                     saving_invest, emergency)
         IN  /\ file' = save_data(data)
             /\ Render(data.profile, data.wishlist)
    /\ last' = "profile"
    /\ UNCHANGED session

AddItem ==
    /\ Rendered
    /\ Len(load_data(file).wishlist) < MaxItems
    /\ \E name \in Names, target \in Targets, months \in Deadlines,
          priority \in Priorities \cap Picked, now \in Now :
         LET data0 == load_data(file)
             data  == AddItemData(data0, name, target, months, priority, now)
         IN  /\ file' = save_data(data)
             /\ Render(data0.profile, data.wishlist)
    /\ last' = "add"
    /\ UNCHANGED session

ApplyAllocation ==
    /\ Rendered
    /\ Len(load_data(file).transactions) < MaxTxns
    /\ LET data0 == load_data(file)
           u     == calculate_usable(data0.profile)
           r     == allocate_to_wishlist(u, data0.wishlist)
       IN  /\ r.alloc # <<>>
           /\ \E now \in Now :
                file' = save_data(ApplyAllocationData(data0, r.alloc, now))
           /\ Render(data0.profile, data0.wishlist)
    /\ last' = "apply"
    /\ UNCHANGED session

DepositOf(amounts) ==
    /\ Rendered
    /\ Len(load_data(file).transactions) < MaxTxns
    /\ LET data0 == load_data(file)
       IN  /\ data0.wishlist # <<>>
           /\ \E target_id \in Choices(data0), amount \in amounts,
                 memo \in Memos, now \in Now :
                file' = save_data(ManualDepositData(data0, target_id, amount, memo, now))
           /\ Render(data0.profile, data0.wishlist)
    /\ last' = "deposit"
    /\ UNCHANGED session

ManualDeposit == DepositOf(Amounts)

\* "데이터 초기화(모두 삭제)": what st.confirm answers is not decided by this
\* code; when it is true the file is removed and st.experimental_rerun()
\* renders the default document, otherwise the run renders the loaded one
Reset ==
    /\ Rendered
    /\ \E confirm \in BOOLEAN :
         IF confirm
         THEN /\ file' = NoFile
              /\ Render(DefaultData.profile, DefaultData.wishlist)
         ELSE /\ file' = file
              /\ LET data == load_data(file)
                 IN  Render(data.profile, data.wishlist)
    /\ last' = "reset"
    /\ UNCHANGED session

Next ==
    \/ Rerun
    \/ SaveProfile
    \/ AddItem
    \/ ApplyAllocation
    \/ ManualDeposit
    \/ Reset

Spec == Init /\ [][Next]_vars

(***************************************************************************)
(* Specifications of the three calculations.  The file already exists when *)
(* the page is opened; its document is drawn from a bounded set, with the  *)
(* optional keys of an item (months, current, priority) present or not,    *)
(* and a run applies the calculation to it.                                *)
(***************************************************************************)
\* an optional key: <<>> when the item does not have it, <<v>> when it has
Absent == <<>>
Opt(S) == {Absent} \cup {<<v>> : v \in S}

ProfileOf(income, fixed_expenses, saving_invest, emergency) ==
    [DefaultData.profile EXCEPT !.income = income,
                                !.fixed_expenses = fixed_expenses,
                                !.saving_invest = saving_invest,
                                !.emergency = emergency]

ItemOf(id, target, months, current, priority) ==
    [k \in {"id", "name", "target", "created"}
           \cup (IF months = Absent THEN {} ELSE {"months"})
           \cup (IF current = Absent THEN {} ELSE {"current"})
           \cup (IF priority = Absent THEN {} ELSE {"priority"}) |->
        CASE k = "id" -> id
          [] k = "name" -> "a"
          [] k = "target" -> target
          [] k = "created" -> "ts"
          [] k = "months" -> months[1]
          [] k = "current" -> current[1]
          [] k = "priority" -> priority[1]]

DocOf(profile, wishlist) ==
    [profile |-> profile, wishlist |-> wishlist, transactions |-> <<>>]

InitWith(docs) ==
    /\ file \in {<<d>> : d \in docs}
    /\ usable = 0
    /\ alloc = <<>>
    /\ rem_after_alloc = 0
    /\ last = "init"
    /\ session = [s \in Sessions |-> NoSession]

\* calculate_usable: every profile with fields up to MaxField, and the
\* profile of the documented scenario
ScenarioProfile == ProfileOf(2000000, 500000, 550000, 60000)

UsableDocs ==
    {DocOf(ProfileOf(i, f, v, e), <<>>) :
        i \in 0..MaxField, f \in 0..MaxField, v \in 0..MaxField, e \in 0..MaxField}
    \cup {DocOf(ScenarioProfile, <<>>)}

InitUsable == InitWith(UsableDocs)
NextUsable == Rerun
SpecUsable == InitUsable /\ [][NextUsable]_vars

\* monthly_need_for_item: one item, every optional key present or not, and
\* the item of the documented scenario with its deposit; the item's balance
\* moves by deposits and by applied allocations
ScenarioItem == ItemOf(1, 400000, <<3>>, <<100000>>, <<3>>)

NeedDocs ==
    {DocOf(ProfileOf(u, 0, 0, 0), <<ItemOf(1, t, m, c, <<1>>)>>) :
        u \in 0..MaxGoal, t \in 0..MaxGoal, m \in Opt(0..MaxPeriod),
        c \in Opt(0..(MaxGoal + 1))}
    \cup {DocOf(ProfileOf(0, 0, 0, 0), <<ScenarioItem>>)}

NeedDeposit == DepositOf({1, 50000})

InitNeed == InitWith(NeedDocs)
NextNeed == Rerun \/ NeedDeposit \/ ApplyAllocation
SpecNeed == InitNeed /\ [][NextNeed]_vars

\* allocate_to_wishlist: wishlists of up to MaxLen items with targets up to
\* MaxNeed (months and current absent, so need = target), priority absent,
\* 1 or 2, budgets up to MaxUsable, and the documented scenario
ScenarioWishlist ==
    <<ItemOf(1, 100, <<1>>, <<0>>, <<2>>), ItemOf(2, 50, <<1>>, <<0>>, <<1>>),
      ItemOf(3, 80, <<1>>, <<0>>, <<2>>)>>

AllocParams == (0..MaxNeed) \X Opt({1, 2})

AllocWishlists(longest) ==
    UNION {{[i \in 1..n |-> ItemOf(i, f[i][1], Absent, Absent, f[i][2])] :
               f \in [1..n -> AllocParams]} : n \in 0..longest}

AllocDocs(longest) ==
    {DocOf(ProfileOf(u, 0, 0, 0), w) : u \in 0..MaxUsable, w \in AllocWishlists(longest)}
    \cup {DocOf(ProfileOf(u, 0, 0, 0), ScenarioWishlist) : u \in {120, 1000}}

InitAlloc == InitWith(AllocDocs(MaxLen))
NextAlloc == Rerun
SpecAlloc == InitAlloc /\ [][NextAlloc]_vars

(***************************************************************************)
(* Two browser sessions.  Streamlit runs each session's script in a thread *)
(* of its own, and the file is not locked, so the load at the top of a run *)
(* (line 76) and the save inside its handler are separate steps, and the   *)
(* steps of the two runs interleave.  Begin is the load; the other actions *)
(* are the rest of the run on the session's private `data`.                *)
(***************************************************************************)
Data(s) == session[s].data[1]

Begin(s) ==
    /\ session[s].pc # "loaded"
    /\ session[s].runs < MaxRuns
    /\ session' = [session EXCEPT ![s] =
           [pc |-> "loaded", data |-> <<load_data(file)>>, runs |-> @.runs + 1]]
    /\ UNCHANGED <<file, usable, alloc, rem_after_alloc, last>>

\* variant: a save that gives way when the file changed since the load
SavedUnlessChanged(s, data) ==
    /\ file' = IF load_data(file) = session[s].data[1] THEN save_data(data) ELSE file
    /\ session' = [session EXCEPT ![s].pc = "saved", ![s].data = <<data>>]

\* the run of session s ends having saved `data`
Saved(s, data) ==
    /\ file' = save_data(data)
    /\ session' = [session EXCEPT ![s].pc = "saved", ![s].data = <<data>>]

SessionRerun(s) ==
    /\ session[s].pc = "loaded"
    /\ Render(Data(s).profile, Data(s).wishlist)
    /\ last' = "rerun"
    /\ session' = [session EXCEPT ![s].pc = "idle"]
    /\ UNCHANGED file

SessionSaveProfile(s) ==
    /\ session[s].pc = "loaded"
    /\ \E income \in {2}, fixed_expenses \in Commits,
          saving_invest \in Commits, emergency \in Commits :
         LET data == SaveProfileData(Data(s), income, fixed_expenses,
                                     saving_invest, emergency)
         IN  /\ Saved(s, data)
             /\ Render(data.profile, data.wishlist)
    /\ last' = "profile"

SessionAddItem(s) ==
    /\ session[s].pc = "loaded"
    /\ Len(Data(s).wishlist) < MaxItems
    /\ \E name \in Names, target \in Targets, months \in {2},
          priority \in {1}, now \in Now :
         LET data == AddItemData(Data(s), name, target, months, priority, now)
         IN  /\ Saved(s, data)
             /\ Render(Data(s).profile, data.wishlist)
    /\ last' = "add"

SessionApplyAllocation(s) ==
    /\ session[s].pc = "loaded"
    /\ Len(Data(s).transactions) < MaxTxns
    /\ LET u == calculate_usable(Data(s).profile)
           r == allocate_to_wishlist(u, Data(s).wishlist)
       IN  /\ r.alloc # <<>>
           /\ \E now \in Now : Saved(s, ApplyAllocationData(Data(s), r.alloc, now))
           /\ Render(Data(s).profile, Data(s).wishlist)
    /\ last' = "apply"

SessionManualDeposit(s) ==
    /\ session[s].pc = "loaded"
    /\ Len(Data(s).transactions) < MaxTxns
    /\ Data(s).wishlist # <<>>
    /\ \E target_id \in Choices(Data(s)), amount \in Amounts,
          memo \in Memos, now \in Now :
         Saved(s, ManualDepositData(Data(s), target_id, amount, memo, now))
    /\ Render(Data(s).profile, Data(s).wishlist)
    /\ last' = "deposit"

SessionReset(s) ==
    /\ session[s].pc = "loaded"
    /\ \E confirm \in BOOLEAN :
         IF confirm
         THEN /\ file' = NoFile
              /\ Render(DefaultData.profile, DefaultData.wishlist)
         ELSE /\ file' = file
              /\ Render(Data(s).profile, Data(s).wishlist)
    /\ last' = "reset"
    /\ session' = [session EXCEPT ![s].pc = "idle"]

NextConc ==
    \E s \in Sessions :
        \/ Begin(s)
        \/ SessionRerun(s)
        \/ SessionSaveProfile(s)
        \/ SessionAddItem(s)
        \/ SessionApplyAllocation(s)
        \/ SessionManualDeposit(s)
        \/ SessionReset(s)

SpecConc == Init /\ [][NextConc]_vars

(***************************************************************************)
(* Properties                                                              *)
(***************************************************************************)
Doc == load_data(file)
Wishlist == Doc.wishlist
Log == Doc.transactions

RECURSIVE AssignedUpTo(_, _)
AssignedUpTo(al, k) == IF k = 0 THEN 0 ELSE AssignedUpTo(al, k - 1) + al[k].assigned

\* position in the wishlist of the item an allocation record is for
PositionOf(wishlist, id) == CHOOSE i \in 1..Len(wishlist) : wishlist[i].id = id

\* item at position i is served before the item at position j
ServedBefore(wishlist, i, j) ==
    LET pi == IF "priority" \in DOMAIN wishlist[i] THEN wishlist[i].priority ELSE 999
        pj == IF "priority" \in DOMAIN wishlist[j] THEN wishlist[j].priority ELSE 999
    IN  pi < pj \/ (pi = pj /\ i < j)

\* C1: the records of an allocation are in ascending priority order, an item
\* without priority after every item with one, and items of equal priority in
\* their wishlist order; the wishlist (id1,prio2), (id2,prio1), (id3,prio2) is
\* processed as id2, id1, id3.
AllocationInStablePriorityOrder ==
    last = "rerun" =>
        /\ \A j, k \in 1..Len(alloc) :
             j < k => ServedBefore(Wishlist, PositionOf(Wishlist, alloc[j].id),
                                   PositionOf(Wishlist, alloc[k].id))
        /\ (Wishlist = ScenarioWishlist /\ usable = 1000 =>
                [j \in 1..Len(alloc) |-> alloc[j].id] = <<2, 1, 3>>)

WitnessStableOrder ==
    /\ last = "rerun"
    /\ Len(alloc) = 3
    /\ alloc[1].id = 2 /\ alloc[2].id = 1 /\ alloc[3].id = 3
    /\ \A i \in 1..3 : "priority" \in DOMAIN Wishlist[i]
    /\ Wishlist[2].priority < Wishlist[1].priority
    /\ Wishlist[1].priority = Wishlist[3].priority

\* C2: for a non-negative budget the allocation holds one record per item in
\* processing order up to and including the item whose assignment brings the
\* remaining budget to 0 and none for any item after it, and the remaining
\* budget returned is never negative; needs 100 (prio 2), 50 (prio 1), 80
\* (prio 2) with budget 120 give id2 50, id1 70, id3 absent, remaining 0.
AllocationStopsAtZero ==
    last = "rerun" =>
        LET n == Len(alloc)
            recorded == {PositionOf(Wishlist, alloc[j].id) : j \in 1..n}
        IN  /\ rem_after_alloc >= 0
            /\ rem_after_alloc = usable - AssignedUpTo(alloc, n)
            /\ Cardinality(recorded) = n
            /\ Wishlist # <<>> => n >= 1
            \* no record follows the one after which nothing is left
            /\ \A k \in 1..(n - 1) : AssignedUpTo(alloc, k) < usable
            \* the loop ends early only when nothing is left
            /\ n < Len(Wishlist) => rem_after_alloc = 0
            \* the items without a record are the ones served last
            /\ \A i \in recorded, j \in (1..Len(Wishlist)) \ recorded :
                 ServedBefore(Wishlist, i, j)
            /\ (Wishlist = ScenarioWishlist /\ usable = 120 =>
                    /\ alloc = <<[id |-> 2, name |-> "a", assigned |-> 50, need |-> 50],
                                 [id |-> 1, name |-> "a", assigned |-> 70, need |-> 100]>>
                    /\ rem_after_alloc = 0)

WitnessStopsAtZero ==
    /\ last = "rerun"
    /\ Len(Wishlist) = 3
    /\ Len(alloc) = 2
    /\ alloc[1].assigned > 0 /\ alloc[2].assigned > 0
    /\ alloc[2].assigned < alloc[2].need
    /\ rem_after_alloc = 0

\* C4: calculate_usable is max(0, income - (fixed_expenses + saving_invest +
\* emergency)): never negative, 0 when the commitments reach or exceed the
\* income, the difference otherwise, and 890000 for income 2000000, fixed
\* expenses 500000, saving 550000, emergency 60000.
UsableIsClampedDifference ==
    last = "rerun" =>
        LET p == Doc.profile
            commitments == p.fixed_expenses + p.saving_invest + p.emergency
        IN  /\ usable >= 0
            /\ commitments >= p.income => usable = 0
            /\ commitments <= p.income => usable + commitments = p.income
            /\ p = ScenarioProfile => usable = 890000

WitnessUsableClamped ==
    /\ last = "rerun"
    /\ Doc.profile.income > 0
    /\ Doc.profile.fixed_expenses + Doc.profile.saving_invest
           + Doc.profile.emergency > Doc.profile.income
    /\ usable = 0

\* C5: monthly_need_for_item is (target - current) / months truncated toward
\* zero and clamped to >= 0, months counted as 1 when 0 or absent; it is 0
\* when current >= target, and every run computes it from the item's present
\* current: 100000 for target 400000, current 100000, months 3, and 83333
\* once 50000 more has been deposited.
NeedIsTruncatedQuotient ==
    last = "rerun" =>
        LET it     == Wishlist[1]
            months == IF "months" \in DOMAIN it /\ it.months # 0 THEN it.months ELSE 1
            saved  == IF "current" \in DOMAIN it THEN it.current ELSE 0
            gap    == it.target - saved
            need   == alloc[1].need
        IN  /\ need >= 0
            /\ gap <= 0 => need = 0
            /\ gap > 0 => need * months <= gap /\ gap < (need + 1) * months
            /\ (it.target = 400000 /\ months = 3 /\ saved = 100000 => need = 100000)
            /\ (it.target = 400000 /\ months = 3 /\ saved = 150000 => need = 83333)

WitnessNeedRecomputed ==
    /\ last = "rerun"
    /\ Len(Log) = 1
    /\ Log[1].type = "manual_deposit" /\ Log[1].amount = 50000
    /\ Wishlist[1].current = 150000
    /\ alloc[1].need = 83333

\* the documents before and after a step
NewDoc == load_data(file')
Ids(wishlist) == {wishlist[i].id : i \in 1..Len(wishlist)}
Final(seq) == seq[Len(seq)]

\* what the allocation `al` assigns to the item with this id
AssignedTo(al, id) ==
    IF \E j \in 1..Len(al) : al[j].id = id /\ al[j].assigned > 0
    THEN (CHOOSE a \in {al[j].assigned : j \in {k \in 1..Len(al) : al[k].id = id}} : TRUE)
    ELSE 0

ApplyAddsAssigned ==
    last' = "apply" =>
        LET al == Final(NewDoc.transactions).detail.alloc
            twice == ApplyAllocationData(NewDoc, al, "ts")
        IN  /\ al = alloc' /\ al # <<>>
            /\ NewDoc.profile = Doc.profile
            /\ Len(NewDoc.wishlist) = Len(Wishlist)
            /\ \A i \in 1..Len(Wishlist) :
                 /\ NewDoc.wishlist[i] =
                      [Wishlist[i] EXCEPT !.current = @ + AssignedTo(al, Wishlist[i].id)]
                 /\ twice.wishlist[i] =
                      [Wishlist[i] EXCEPT !.current = @ + 2 * AssignedTo(al, Wishlist[i].id)]
            /\ Len(NewDoc.transactions) = Len(Log) + 1
            /\ SubSeq(NewDoc.transactions, 1, Len(Log)) = Log
            /\ Final(NewDoc.transactions).type = "monthly_alloc"

\* C3: applying the monthly allocation adds `assigned` to the current of every
\* item with a record of assigned > 0, leaves the other items, the other
\* fields and the profile as they were, and appends one monthly_alloc
\* transaction holding the whole allocation; nothing guards the addition, so
\* the same allocation applied a second time adds the amounts again.
ApplyMonthlyAllocationEffect == [][ApplyAddsAssigned]_vars

WitnessApplied ==
    /\ last = "apply"
    /\ Len(Wishlist) = 2
    /\ Len(alloc) = 1
    /\ alloc[1].assigned > 0
    /\ \E i \in 1..2 : Wishlist[i].id = alloc[1].id /\ Wishlist[i].current >= 2 + alloc[1].assigned
    /\ \E i \in 1..2 : Wishlist[i].id # alloc[1].id /\ Wishlist[i].current = 0

DepositAddsAmount ==
    last' = "deposit" =>
        LET txn == Final(NewDoc.transactions)
        IN  /\ NewDoc.transactions = Append(Log, txn)
            /\ txn.type = "manual_deposit"
            /\ DOMAIN txn = {"ts", "type", "amount", "item_id", "memo"}
            /\ NewDoc.profile = Doc.profile
            /\ Len(NewDoc.wishlist) = Len(Wishlist)
            /\ \A i \in 1..Len(Wishlist) :
                 NewDoc.wishlist[i] =
                    IF Wishlist[i].id = txn.item_id
                    THEN [Wishlist[i] EXCEPT !.current = @ + txn.amount]
                    ELSE Wishlist[i]

DepositToUnknownIdOnlyLogged ==
    \A target_id \in (1..(MaxItems + 1)) \ Ids(Wishlist), amount \in Amounts :
        LET after == ManualDepositData(Doc, target_id, amount, "", "ts")
        IN  /\ after.wishlist = Wishlist
            /\ after.profile = Doc.profile
            /\ Len(after.transactions) = Len(Log) + 1
            /\ SubSeq(after.transactions, 1, Len(Log)) = Log
            /\ Final(after.transactions).type = "manual_deposit"
            /\ Final(after.transactions).item_id = target_id
            /\ Final(after.transactions).amount = amount

\* C6: a manual deposit appends exactly one manual_deposit transaction
\* {amount, item_id, memo}; with an id of the wishlist it adds the amount to
\* that item's current and changes no other item, and with an id of no item
\* it leaves the wishlist as it is while the log still gains the entry.
ManualDepositEffect == []DepositToUnknownIdOnlyLogged /\ [][DepositAddsAmount]_vars

WitnessDeposited ==
    /\ last = "deposit"
    /\ Len(Wishlist) = 2
    /\ Final(Log).type = "manual_deposit"
    /\ Final(Log).item_id = Wishlist[2].id
    /\ Wishlist[2].current = Final(Log).amount
    /\ Wishlist[1].current = 0

IdsDistinctPositive ==
    /\ \A i \in 1..Len(Wishlist) : Wishlist[i].id \in Nat \ {0}
    /\ \A i, j \in 1..Len(Wishlist) : i # j => Wishlist[i].id # Wishlist[j].id

IdsKept ==
    /\ last' = "add" =>
         /\ Len(NewDoc.wishlist) = Len(Wishlist) + 1
         /\ LET id == Final(NewDoc.wishlist).id
            IN  IF Wishlist = <<>> THEN id = 1
                ELSE /\ id - 1 \in Ids(Wishlist)
                     /\ \A k \in Ids(Wishlist) : k < id
    /\ last' \in {"add", "profile", "apply", "deposit", "rerun"} =>
         \A i \in 1..Len(Wishlist) : NewDoc.wishlist[i].id = Wishlist[i].id

\* C7: the ids of the wishlist are pairwise distinct positive integers; an
\* added item gets the largest id in use plus one, or 1 in an empty wishlist,
\* and no action changes the id of an item.
ItemIdsUnique == []IdsDistinctPositive /\ [][IdsKept]_vars

WitnessTwoIds ==
    /\ last = "add"
    /\ Len(Wishlist) = 2
    /\ Wishlist[1].id = 1 /\ Wishlist[2].id = 2
    /\ Log # <<>>

LogGrowsByAppend ==
    /\ Len(NewDoc.transactions) \in {Len(Log), Len(Log) + 1}
    /\ SubSeq(NewDoc.transactions, 1, Len(Log)) = Log

\* C8 as stated: after any action the log is the log before it with zero or
\* one entry appended.
LogAppendOnly == [][LogGrowsByAppend]_vars

\* C8, amended: after any action other than a confirmed reset the log is the
\* log before it with zero or one entry appended; a confirmed reset removes
\* the file and with it the whole log.
LogAppendOnlyUntilReset ==
    [][LogGrowsByAppend \/ (last' = "reset" /\ file' = NoFile)]_vars

WitnessLogOfTwo ==
    /\ Len(Log) = 2
    /\ Log[1].type = "monthly_alloc"
    /\ Log[2].type = "manual_deposit"
    /\ last = "deposit"

ApplyLeavesLongItemOpen ==
    last' = "apply" =>
        \A i \in 1..Len(Wishlist) :
            LET before == Wishlist[i]
                after  == NewDoc.wishlist[i]
                saved  == IF "current" \in DOMAIN before THEN before.current ELSE 0
                saved2 == IF "current" \in DOMAIN after THEN after.current ELSE 0
            IN  ("months" \in DOMAIN before /\ before.months >= 2
                    /\ saved < before.target)
                  => (saved2 < after.target /\ saved2 >= saved)

\* C10: an apply of the monthly allocation never completes an item with a
\* deadline of two or more months: when months >= 2 and current < target
\* before the apply, current < target after it, whatever the budget.
MonthlyAllocationNeverCompletes == [][ApplyLeavesLongItemOpen]_vars

WitnessStillOpen ==
    /\ last = "apply"
    /\ Len(Log) = 2
    /\ Log[1].type = "monthly_alloc" /\ Log[2].type = "monthly_alloc"
    /\ Log[1].detail.alloc[1].assigned = 1
    /\ Log[2].detail.alloc[1].assigned = 1
    /\ "months" \in DOMAIN Wishlist[1] /\ Wishlist[1].months = 2
    /\ Wishlist[1].target = 3
    /\ Wishlist[1].current = 2

SaveOverwrites ==
    \A s \in Sessions :
        (session[s].pc = "loaded" /\ session'[s].pc = "saved") =>
            LET loaded == session[s].data[1]
            IN  /\ file' = session'[s].data
                /\ Len(NewDoc.transactions) \in
                      {Len(loaded.transactions), Len(loaded.transactions) + 1}
                /\ SubSeq(NewDoc.transactions, 1, Len(loaded.transactions))
                      = loaded.transactions
                /\ Len(NewDoc.wishlist) \in
                      {Len(loaded.wishlist), Len(loaded.wishlist) + 1}

\* C9: a save writes the saving session's whole document: the file then
\* holds what that session loaded plus its own change and nothing another
\* session saved in between, so of two racing sessions the later writer wins.
LastWriterWins == [][SaveOverwrites]_vars

WitnessLostUpdate ==
    \E a, b \in Sessions :
        /\ a # b
        /\ session[a].pc = "saved" /\ session[b].pc = "saved"
        /\ file = session[b].data
        /\ Len(session[a].data[1].transactions) = 1
        /\ session[a].data[1].transactions[1].type = "manual_deposit"
        /\ Len(Log) = 1
        /\ Log[1].type = "monthly_alloc"
        /\ Len(Wishlist) = Len(session[a].data[1].wishlist)
        /\ \A i \in 1..Len(Wishlist) :
             Wishlist[i].current < session[a].data[1].wishlist[i].current

====
